---- MODULE Spec2Model ----
(***************************************************************************)
(* Price-Compare-Pro: the deal scorer, the frontend's best-deal selection  *)
(* (ResultsDisplay, AIRecommendation) and the Index page's search state.   *)
(*                                                                         *)
(* Numbers.  Prices are integers (rupees).  A rating is an integer number  *)
(* of tenths (4.5 is 45).  A score is an exact rational [n, d] kept in     *)
(* lowest terms; d = 0 marks the value a division by zero yields.          *)
(***************************************************************************)
EXTENDS Integers, Sequences, FiniteSets, TLC

VARIABLES
    raw,          \* scorer input: the product records of one search
    scored,       \* scorer output, or NotScored before the scorer ran
    allProducts,  \* ResultsDisplay: the flattened product list it renders
    view,         \* what ResultsDisplay rendered, or NotRendered
    panel,        \* what AIRecommendation rendered on its own, or NotRendered
    mounted,          \* Index: is an instance of the page mounted
    mountId,          \* Index: which instance (counts the mounts)
    products,         \* Index state: platform -> product list
    priceStats,       \* Index state
    aiRecommendation, \* Index state
    isLoading,        \* Index state
    expanded,         \* ResultsDisplay state (the component Index renders)
    sessionStorage,   \* the tab's sessionStorage, the three searchResults_ items
    calls,            \* the handleSearch invocations so far, each with its position
    toast,            \* title of the last toast shown
    user,             \* Firebase auth.currentUser: a user, or JsNull when signed out
    location,         \* the route the tab shows
    sent,             \* the requests the frontend has sent, each with who was signed in
    db,               \* MongoDB: the number of documents of the user in each collection
    reqs,             \* the backend requests in flight, each with its position
    handler,          \* the frontend handler that is running, or Idle
    error,            \* the error message the Login or SignUp page shows
    clicks,           \* 'Continue with Google' clicks on the Login page since it opened
    password,         \* SignUp form state
    confirmPassword,  \* SignUp form state
    loading           \* SignUp form state

dealVars == <<raw, scored, allProducts, view, panel>>

pageVars == <<mounted, mountId, products, priceStats, aiRecommendation, isLoading,
              expanded, sessionStorage, calls, toast, user, location, sent>>

\* the Index page's own state, without the session (user, location, toast)
indexVars == <<mounted, mountId, products, priceStats, aiRecommendation, isLoading,
               expanded, sessionStorage, calls, sent>>

authVars == <<db, reqs, handler, error, clicks>>

formVars == <<password, confirmPassword, loading>>

notDealVars == <<pageVars, authVars, formVars>>

notPageVars == <<dealVars, authVars, formVars>>

vars == <<dealVars, pageVars, authVars, formVars>>

(***************************************************************************)
(* Bounds of the model.                                                    *)
(***************************************************************************)
MaxLen == 3

ScoreDen == 2

MaxSearches == 2

MaxMounts == 2

MaxPerPlatform == 1

(***************************************************************************)
(* Exact rational arithmetic.                                              *)
(***************************************************************************)
Abs(x) == IF x < 0 THEN -x ELSE x

RECURSIVE Gcd(_, _)
Gcd(a, b) == IF b = 0 THEN a ELSE Gcd(b, a % b)

Norm(r) ==
    IF r.d = 0 THEN [n |-> 0, d |-> 0]
    ELSE LET g == Gcd(Abs(r.n), Abs(r.d))
             s == IF r.d < 0 THEN -1 ELSE 1
         IN  [n |-> s * (r.n \div g), d |-> s * (r.d \div g)]

Rat(a, b) == Norm([n |-> a, d |-> b])
RAdd(a, b) == Norm([n |-> a.n * b.d + b.n * a.d, d |-> a.d * b.d])
RSub(a, b) == Norm([n |-> a.n * b.d - b.n * a.d, d |-> a.d * b.d])
RMul(a, b) == Norm([n |-> a.n * b.n, d |-> a.d * b.d])
RDiv(a, b) == Norm([n |-> a.n * b.d, d |-> a.d * b.n])
RDefined(a) == a.d # 0
RLt(a, b) == RDefined(a) /\ RDefined(b) /\ a.n * b.d < b.n * a.d
RLe(a, b) == RDefined(a) /\ RDefined(b) /\ a.n * b.d <= b.n * a.d
REq(a, b) == RDefined(a) /\ RDefined(b) /\ a.n * b.d = b.n * a.d

Zero == Rat(0, 1)
One == Rat(1, 1)

(***************************************************************************)
(* Product (types/product.ts).  final_score is declared a number, but the  *)
(* components guard against its absence (final_score ?? 0): Undefined is   *)
(* the absent value.                                                       *)
(***************************************************************************)
Undefined == [undefined |-> TRUE]
Null == [rendered |-> FALSE]
NotScored == [done |-> FALSE]

Product(price, rating, final_score) ==
    [price |-> price, rating |-> rating, final_score |-> final_score]

RECURSIVE SeqsUpTo(_, _)
SeqsUpTo(S, k) ==
    IF k = 0 THEN {<<>>}
    ELSE LET shorter == SeqsUpTo(S, k - 1)
         IN  shorter \cup {Append(s, x) : s \in {t \in shorter : Len(t) = k - 1}, x \in S}

(***************************************************************************)
(* ResultsDisplay.tsx: the best deal of the rendered list.                 *)
(***************************************************************************)
initialCount == 4

\* p.final_score ?? 0
ScoreOrZero(p) == IF p.final_score = Undefined THEN Zero ELSE p.final_score

RD_GreaterFlipped(currentScore, maxScore) == RLt(currentScore, maxScore)

\* currentScore > maxScore
RD_Greater(currentScore, maxScore) == RLt(maxScore, currentScore)

\* allProducts.forEach((p) => { if (currentScore > maxScore) {...} })
RECURSIVE RD_ForEach(_, _, _)
RD_ForEach(ps, i, acc) ==
    IF i > Len(ps) THEN acc
    ELSE LET currentScore == ScoreOrZero(ps[i])
         IN  RD_ForEach(ps, i + 1,
                 IF RD_Greater(currentScore, acc.maxScore)
                 THEN [bestDeal |-> i, maxScore |-> currentScore]
                 ELSE acc)

\* let bestDeal = allProducts[0]; let maxScore = allProducts[0]?.final_score ?? 0;
\* bestDeal is the index (1-based) of the chosen element of the list.
RD_BestDeal(ps) ==
    RD_ForEach(ps, 1, [bestDeal |-> 1, maxScore |-> ScoreOrZero(ps[1])])

\* expanded ? allProducts : allProducts.slice(0, initialCount), as indices
displayedProducts(ps, exp) ==
    IF exp THEN 1..Len(ps)
    ELSE 1..(IF Len(ps) < initialCount THEN Len(ps) ELSE initialCount)

\* highlighted={product.final_score === maxScore}
Highlighted(p, maxScore) ==
    p.final_score # Undefined /\ REq(p.final_score, maxScore)

(***************************************************************************)
(* AIRecommendation.tsx: the best deal of the recommendation panel.        *)
(***************************************************************************)
\* current.final_score > best.final_score  (false when either is undefined)
AI_Greater(current, best) ==
    /\ current.final_score # Undefined
    /\ best.final_score # Undefined
    /\ RLt(best.final_score, current.final_score)

\* products.reduce((best, current) => ... ? current : best, products[0])
RECURSIVE AI_Reduce(_, _, _)
AI_Reduce(ps, i, best) ==
    IF i > Len(ps) THEN best
    ELSE AI_Reduce(ps, i + 1, IF AI_Greater(ps[i], ps[best]) THEN i ELSE best)

AI_EmptyOffByOne(ps) == Len(ps) <= 1

\* if (products.length === 0) return null
AI_Empty(ps) == Len(ps) = 0

\* The panel and its bestDeal (an index of the list), or Null: nothing is rendered.
AIRecommendation(ps) ==
    IF AI_Empty(ps) THEN Null
    ELSE [rendered |-> TRUE, bestDeal |-> AI_Reduce(ps, 1, 1)]

(***************************************************************************)
(* ResultsDisplay: one render.                                             *)
(***************************************************************************)
NotRendered == [screen |-> "none"]

\* if (totalProducts === 0) -> "No Results Yet"
RD_NoResults(ps) == Len(ps) = 0

ViewMoreAtFour(total) == total >= initialCount

\* {totalProducts > initialCount && <ViewMoreButton ... />}
ViewMore(total) == total > initialCount

\* ViewMoreButton.tsx: 'Show Less', or 'View {totalItems - currentlyShowing}
\* More Products'
ViewMoreButton(exp, totalItems, currentlyShowing) ==
    IF exp THEN [text |-> "Show Less"]
    ELSE [text |-> "View More Products", more |-> totalItems - currentlyShowing]

ResultsDisplay(ps, busy, exp) ==
    IF busy THEN [screen |-> "skeleton"]
    ELSE IF RD_NoResults(ps) THEN [screen |-> "noResults"]
    ELSE LET best == RD_BestDeal(ps)
             displayedTotal == Cardinality(displayedProducts(ps, exp))
         IN  [screen |-> "results",
              bestDeal |-> best.bestDeal,
              maxScore |-> best.maxScore,
              ai |-> AIRecommendation(ps),
              displayed |-> displayedProducts(ps, exp),
              displayedTotal |-> displayedTotal,
              totalProducts |-> Len(ps),
              viewMore |-> IF ViewMore(Len(ps))
                           THEN ViewMoreButton(exp, Len(ps), displayedTotal)
                           ELSE Null,
              highlighted |-> {i \in displayedProducts(ps, exp) :
                                   Highlighted(ps[i], best.maxScore)}]

(***************************************************************************)
(* Index.tsx: the values of the page's state.                              *)
(***************************************************************************)
Platforms == {"amazon", "flipkart", "croma"}
PlatformOrder == <<"amazon", "flipkart", "croma">>

\* JS null, and the state of a page instance that is not mounted
JsNull == [isNull |-> TRUE]
Unmounted == [unmounted |-> TRUE]
NoItem == [absent |-> TRUE]
NoToast == "none"

\* JSON.stringify / JSON.parse of the values stored here: objects, arrays,
\* numbers and strings, which a round trip returns unchanged.
JSONstringify(v) == [json |-> v]
JSONparse(item) == item.json

\* useState<...>({ amazon: [], flipkart: [] })
EmptyProducts == [k \in {"amazon", "flipkart"} |-> <<>>]
\* useState<...>({})
EmptyStats == [empty |-> TRUE]

\* no Index instance, nothing stored, nothing sent
IndexIdle ==
    /\ mounted = FALSE
    /\ mountId = 0
    /\ products = Unmounted
    /\ priceStats = Unmounted
    /\ aiRecommendation = Unmounted
    /\ isLoading = FALSE
    /\ expanded = FALSE
    /\ sessionStorage = [products |-> NoItem, priceStats |-> NoItem,
                         aiRecommendation |-> NoItem]
    /\ calls = <<>>
    /\ sent = {}

PageIdle ==
    /\ IndexIdle
    /\ toast = NoToast
    /\ user = JsNull
    /\ location = "/login"

DealIdle ==
    /\ raw = <<>>
    /\ scored = NotScored
    /\ allProducts = <<>>
    /\ view = NotRendered
    /\ panel = NotRendered

\* no handler is running
Idle == [pc |-> "idle"]

\* no document of the user in any collection
EmptyDb == [users |-> 0, searches |-> 0, activity |-> 0]

AuthIdle ==
    /\ db = EmptyDb
    /\ reqs = {}
    /\ handler = Idle
    /\ error = ""
    /\ clicks = 0

FormIdle ==
    /\ password = <<>>
    /\ confirmPassword = <<>>
    /\ loading = FALSE

(***************************************************************************)
(* SpecSelect: best-deal selection over every product list the frontend    *)
(* can be handed, whatever its final_score values.                         *)
(***************************************************************************)
SelectPrices == {50, 100}
SelectRatings == {35, 40}
SelectScores == {Rat(k, ScoreDen) : k \in 0..ScoreDen} \cup {Undefined}
SelectProducts ==
    {Product(p, r, s) : p \in SelectPrices, r \in SelectRatings, s \in SelectScores}

SelectInit ==
    /\ allProducts \in SeqsUpTo(SelectProducts, MaxLen)
    /\ view = NotRendered
    /\ panel = NotRendered
    /\ raw = <<>>
    /\ scored = NotScored
    /\ PageIdle
    /\ AuthIdle
    /\ FormIdle

\* <ResultsDisplay products=... isLoading={false} /> in its initial, collapsed state
Render ==
    /\ view = NotRendered
    /\ view' = ResultsDisplay(allProducts, FALSE, FALSE)
    /\ UNCHANGED <<raw, scored, allProducts, panel, notDealVars>>

\* <AIRecommendation products={allProducts} />
RenderPanel ==
    /\ panel = NotRendered
    /\ panel' = AIRecommendation(allProducts)
    /\ UNCHANGED <<raw, scored, allProducts, view, notDealVars>>

SelectNext == Render \/ RenderPanel

SpecSelect == SelectInit /\ [][SelectNext]_vars

(***************************************************************************)
(* Vocabulary of the best-deal claims.                                     *)
(***************************************************************************)
MinRating == 35

Indices(ps) == 1..Len(ps)
AllScored(ps) == \A i \in Indices(ps) : ps[i].final_score # Undefined
QualityIndices(ps) == {i \in Indices(ps) : ps[i].rating > MinRating}
\* the candidates of the documented policy: rating > 3.5, else the whole list
Candidates(ps) == IF QualityIndices(ps) # {} THEN QualityIndices(ps) ELSE Indices(ps)
IsMaxOf(ps, S, i) == i \in S /\ \A j \in S : RLe(ScoreOrZero(ps[j]), ScoreOrZero(ps[i]))
TiedAtMax(ps, S) == {i \in S : IsMaxOf(ps, S, i)}
Cheapest(ps, S, i) == i \in S /\ \A j \in S : ps[i].price <= ps[j].price
Shown == view.screen = "results"
PanelShown == panel # NotRendered /\ panel # Null

\* C1 (as claimed): with a product rated above 3.5 in a list of scored
\* products, neither ResultsDisplay's bestDeal nor AIRecommendation's
\* bestDeal is a product rated 3.5 or less.
C1_NeverBelowThreshold ==
    /\ (Shown /\ AllScored(allProducts) /\ QualityIndices(allProducts) # {})
           => allProducts[view.bestDeal].rating > MinRating
    /\ (PanelShown /\ AllScored(allProducts) /\ QualityIndices(allProducts) # {})
           => allProducts[panel.bestDeal].rating > MinRating

C3_NullIffEmpty ==
    /\ view # NotRendered
           => /\ view.screen = "noResults" <=> allProducts = <<>>
              /\ allProducts # <<>>
                    => /\ Shown
                       /\ view.bestDeal \in Indices(allProducts)
                       /\ view.ai # Null
                       /\ view.ai.bestDeal \in Indices(allProducts)
    /\ panel # NotRendered
           => /\ panel = Null <=> allProducts = <<>>
              /\ panel # Null => panel.bestDeal \in Indices(allProducts)

\* C3 witness: the empty list has been rendered by both components.
C3_WitnessEmpty ==
    allProducts = <<>> /\ view.screen = "noResults" /\ panel = Null

\* C4 (as claimed): when the returned best deal is one of several candidates
\* sharing the maximum final_score, it is the cheapest of them.
C4_TieBreakLowestPrice ==
    LET tied == TiedAtMax(allProducts, Candidates(allProducts))
    IN  /\ (Shown /\ AllScored(allProducts) /\ view.bestDeal \in tied)
               => Cheapest(allProducts, tied, view.bestDeal)
        /\ (PanelShown /\ AllScored(allProducts) /\ panel.bestDeal \in tied)
               => Cheapest(allProducts, tied, panel.bestDeal)

(***************************************************************************)
(* The deal scorer (backend, google_shopping_service.py): scoreAndRank.    *)
(***************************************************************************)
PriceWeight == Rat(7, 10)
RatingWeight == Rat(3, 10)
MaxRating == Rat(5, 1)

RECURSIVE SetMin(_)
SetMin(S) ==
    LET x == CHOOSE y \in S : TRUE
    IN  IF S = {x} THEN x
        ELSE LET m == SetMin(S \ {x}) IN IF x < m THEN x ELSE m

RECURSIVE SetMax(_)
SetMax(S) ==
    LET x == CHOOSE y \in S : TRUE
    IN  IF S = {x} THEN x
        ELSE LET m == SetMax(S \ {x}) IN IF x > m THEN x ELSE m

ValidPriceNonNegative(p) == p.price >= 0

\* records with price <= 0 are excluded before scoring
ValidPrice(p) == p.price > 0
ValidRecords(records) == SelectSeq(records, ValidPrice)

Prices(records) == {records[i].price : i \in 1..Len(records)}

priceScoreUnguarded(price, minPrice, maxPrice) ==
    RSub(One, RDiv(Rat(price - minPrice, 1), Rat(maxPrice - minPrice, 1)))

\* maxPrice == minPrice ? 1.0 : 1 - (price - minPrice) / (maxPrice - minPrice)
priceScore(price, minPrice, maxPrice) ==
    IF maxPrice = minPrice THEN One
    ELSE RSub(One, RDiv(Rat(price - minPrice, 1), Rat(maxPrice - minPrice, 1)))

ratingScoreUnscaled(rating) == Rat(rating, 10)

\* ratingScore = rating / 5.0   (rating is held in tenths)
ratingScore(rating) == RDiv(Rat(rating, 10), MaxRating)

finalScoreRatingSubtracted(pScore, rScore) ==
    RSub(RMul(Rat(7, 10), pScore), RMul(Rat(3, 10), rScore))

\* final_score = 0.7 * priceScore + 0.3 * ratingScore
finalScore(pScore, rScore) ==
    RAdd(RMul(PriceWeight, pScore), RMul(RatingWeight, rScore))

\* >= 0.8 "Excellent Deal", >= 0.6 "Good Value", else "Fair"
recommendationLabel(score) ==
    IF RLe(Rat(8, 10), score) THEN "Excellent Deal"
    ELSE IF RLe(Rat(6, 10), score) THEN "Good Value"
    ELSE "Fair"

\* One record of the result, with the intermediate priceScore kept beside it.
ScoreRecord(p, minPrice, maxPrice) ==
    LET pScore == priceScore(p.price, minPrice, maxPrice)
        score == finalScore(pScore, ratingScore(p.rating))
    IN  [price |-> p.price, rating |-> p.rating, priceScore |-> pScore,
         final_score |-> score, recommendation |-> recommendationLabel(score)]

\* scoreAndRank: every valid record scored, in the input's order.
scoreAndRank(records) ==
    LET valid == ValidRecords(records)
        minPrice == SetMin(Prices(valid))
        maxPrice == SetMax(Prices(valid))
    IN  [done |-> TRUE,
         out |-> [i \in 1..Len(valid) |-> ScoreRecord(valid[i], minPrice, maxPrice)]]

\* The Product the frontend receives for a scored record.
ToProduct(r) == Product(r.price, r.rating, r.final_score)

(***************************************************************************)
(* SpecScore: one search response: the scorer, then the frontend's render  *)
(* of the scored list.                                                     *)
(***************************************************************************)
RawPrices == {-50, 0, 50, 75, 100}
RawRatings == {0, 30, 40, 45, 50}
RawProducts == {[price |-> p, rating |-> r] : p \in RawPrices, r \in RawRatings}

Undelivered == <<[undelivered |-> TRUE]>>

ScoreInit ==
    /\ raw \in SeqsUpTo(RawProducts, MaxLen) \ {<<>>}
    /\ scored = NotScored
    /\ allProducts = Undelivered
    /\ view = NotRendered
    /\ panel = NotRendered
    /\ PageIdle
    /\ AuthIdle
    /\ FormIdle

ScoreAndRank ==
    /\ scored = NotScored
    /\ scored' = scoreAndRank(raw)
    /\ UNCHANGED <<raw, allProducts, view, panel, notDealVars>>

\* the response's products reach ResultsDisplay as allProducts
Deliver ==
    /\ scored # NotScored
    /\ allProducts = Undelivered
    /\ allProducts' = [i \in 1..Len(scored.out) |-> ToProduct(scored.out[i])]
    /\ UNCHANGED <<raw, scored, view, panel, notDealVars>>

RenderScored ==
    /\ allProducts # Undelivered
    /\ Render

ScoreNext == ScoreAndRank \/ Deliver \/ RenderScored

SpecScore == ScoreInit /\ [][ScoreNext]_vars

(***************************************************************************)
(* Vocabulary of the scorer claims.                                        *)
(***************************************************************************)
Scored == scored # NotScored
Out == scored.out
ValidIndices == {i \in 1..Len(raw) : raw[i].price > 0}
ValidPrices == {raw[i].price : i \in ValidIndices}

ExampleInput ==
    <<[price |-> 100, rating |-> 40], [price |-> 50, rating |-> 30],
      [price |-> 75, rating |-> 45]>>

\* The example's scores are 0.24, 0.88 and 0.62 (the first half of C8).
C8_ExampleScores ==
    (raw = ExampleInput /\ Scored)
        => /\ Out[1].final_score = Rat(24, 100)
           /\ Out[2].final_score = Rat(88, 100)
           /\ Out[3].final_score = Rat(62, 100)

\* C8 (as claimed): for {100 / 4.0, 50 / 3.0, 75 / 4.5} the scores are 0.24,
\* 0.88 and 0.62, and the best deal the frontend shows is the 75 / 4.5
\* product, not the product with the highest score.
C8_ExampleBestDeal ==
    /\ C8_ExampleScores
    /\ (raw = ExampleInput /\ Shown)
          => /\ allProducts[view.bestDeal].price = 75
             /\ allProducts[view.ai.bestDeal].price = 75

PageProduct(k, platform, i) == [src |-> k, platform |-> platform, pos |-> i]

\* A response of POST /api/v1/search to call k: the platforms it lists, the
\* products of each, the price statistics and the recommendation text.
PlatformList(k, platform, n) == [i \in 1..n |-> PageProduct(k, platform, i)]

PlatformCounts == UNION {[present -> 0..MaxPerPlatform] : present \in SUBSET Platforms}

Responses(k) ==
    {[platforms |-> [pl \in DOMAIN count |-> PlatformList(k, pl, count[pl])],
      stats |-> [src |-> k],
      ai_recommendation |-> ai] :
        count \in PlatformCounts,
        ai \in {JsNull, [text |-> "recommendation", src |-> k]}}

setProductsMerging(prev, value) ==
    [pl \in DOMAIN prev \cup DOMAIN value |->
        IF pl \in DOMAIN value THEN value[pl] ELSE prev[pl]]

\* setProducts(value): the state is replaced by the value
setProducts(prev, value) == value

\* platformProducts[platform.platform.toLowerCase()] = platform.products || []
platformProducts(response) == response.platforms

\* Object.values(products).flat(), in a fixed order of the platforms
RECURSIVE Flat(_, _)
Flat(prods, i) ==
    IF i > Len(PlatformOrder) THEN <<>>
    ELSE (IF PlatformOrder[i] \in DOMAIN prods THEN prods[PlatformOrder[i]] ELSE <<>>)
             \o Flat(prods, i + 1)

AllProductsOf(prods) == Flat(prods, 1)

\* const totalProducts = allProducts.length
totalProducts(prods) == Len(AllProductsOf(prods))

ResetExpandedNever(before, after, exp) == exp

\* ResultsDisplay: useEffect(() => { setExpanded(false) }, [totalProducts]),
\* run after the render in which the products changed from before to after
ResetExpanded(before, after, exp) ==
    IF totalProducts(after) # totalProducts(before) THEN FALSE ELSE exp

\* The three persistence effects, run after a render in which the named
\* state changed: products and priceStats are always written, the
\* recommendation only if (aiRecommendation).
Persist(store, prods, stats, rec) ==
    [products |-> JSONstringify(prods),
     priceStats |-> JSONstringify(stats),
     aiRecommendation |-> IF rec # JsNull THEN rec ELSE store.aiRecommendation]

\* The lazy initialisers of useState
RestoredProducts(store) ==
    IF store.products # NoItem THEN JSONparse(store.products) ELSE EmptyProducts
RestoredStats(store) ==
    IF store.priceStats # NoItem THEN JSONparse(store.priceStats) ELSE EmptyStats
RestoredRecommendation(store) ==
    IF store.aiRecommendation # NoItem THEN store.aiRecommendation ELSE JsNull

(***************************************************************************)
(* lib/firebase.ts and lib/api.ts: the signed-in user, the ID token and    *)
(* the two ways the frontend sends a request: bare axios, and apiClient    *)
(* with its request and response interceptors.                             *)
(***************************************************************************)
Users == {[uid |-> "u1"], [uid |-> "u2"]}

\* AuthAPI.getIdToken: auth.currentUser?.getIdToken()
getIdToken(currentUser) ==
    IF currentUser = JsNull THEN Undefined ELSE [idToken |-> currentUser.uid]

Bearer(token) == [bearer |-> token]

\* axios.post(url, data): a request with the default headers only
axiosPost(url) == [method |-> "POST", url |-> url, Authorization |-> Undefined]

\* apiClient.interceptors.request: the token is attached if there is one
requestInterceptor(config, currentUser) ==
    IF getIdToken(currentUser) # Undefined
    THEN [config EXCEPT !.Authorization = Bearer(getIdToken(currentUser))]
    ELSE config

apiClientPost(url, currentUser) == requestInterceptor(axiosPost(url), currentUser)

\* what was sent, and who was signed in when it was sent
Sent(request, currentUser) == [request |-> request, user |-> currentUser]

\* The outcomes of a request: a response with a status, or no response at
\* all (a network error).
Outcomes ==
    {[response |-> [status |-> s]] : s \in {200, 401, 500}}
        \cup {[response |-> Undefined]}

Fulfilled(outcome) ==
    /\ outcome.response # Undefined
    /\ outcome.response.status = 200

\* apiClient.interceptors.response, the error branch:
\*   if (error.response?.status === 401) window.location.href = '/login'
responseInterceptorRedirects(outcome) ==
    /\ outcome.response # Undefined
    /\ outcome.response.status = 401

\* Is the page instance that started call c still the mounted one?  A state
\* setter of an instance that was unmounted changes nothing.
Live(c) == mounted /\ c.mount = mountId

PageInit ==
    /\ mounted = TRUE
    /\ mountId = 1
    /\ products = EmptyProducts
    /\ priceStats = EmptyStats
    /\ aiRecommendation = JsNull
    /\ isLoading = FALSE
    /\ expanded = FALSE
    /\ sessionStorage = Persist([products |-> NoItem, priceStats |-> NoItem,
                                 aiRecommendation |-> NoItem],
                                EmptyProducts, EmptyStats, JsNull)
    /\ calls = <<>>
    /\ toast = NoToast
    /\ user = [uid |-> "u1"]
    /\ location = "/"
    /\ sent = {}
    /\ DealIdle
    /\ AuthIdle
    /\ FormIdle

\* The Index instance and its state are dropped
Dropped ==
    /\ mounted' = FALSE
    /\ products' = Unmounted
    /\ priceStats' = Unmounted
    /\ aiRecommendation' = Unmounted
    /\ isLoading' = FALSE
    /\ expanded' = FALSE

\* A new Index instance initialises from sessionStorage and runs its
\* persistence effects once.
Mounting ==
    /\ mounted' = TRUE
    /\ mountId' = mountId + 1
    /\ products' = RestoredProducts(sessionStorage)
    /\ priceStats' = RestoredStats(sessionStorage)
    /\ aiRecommendation' = RestoredRecommendation(sessionStorage)
    /\ isLoading' = FALSE
    /\ expanded' = FALSE
    /\ sessionStorage' = Persist(sessionStorage, products', priceStats', aiRecommendation')

\* The user navigates to the Analytics page: the instance is unmounted; its
\* handleSearch calls in flight run on.
Unmount ==
    /\ mounted
    /\ Dropped
    /\ location' = "/analytics"
    /\ UNCHANGED <<mountId, sessionStorage, calls, toast, user, sent, notPageVars>>

\* The user navigates back to the home page
Mount ==
    /\ ~mounted
    /\ location = "/analytics"
    /\ mountId < MaxMounts
    /\ Mounting
    /\ location' = "/"
    /\ UNCHANGED <<calls, toast, user, sent, notPageVars>>

\* UserProfileDropdown.handleLogout: await logout() (Firebase signOut), then
\* navigate('/login').  Nothing else is done.
HandleLogout ==
    /\ user # JsNull
    /\ location \in {"/", "/analytics"}
    /\ user' = JsNull
    /\ location' = "/login"
    /\ IF mounted THEN Dropped
       ELSE UNCHANGED <<mounted, products, priceStats, aiRecommendation, isLoading,
                        expanded>>
    /\ UNCHANGED <<mountId, sessionStorage, calls, toast, sent, notPageVars>>

\* A user signs in on the Login page and its handler ends in navigate('/'),
\* which mounts Index.
Login(u) ==
    /\ location = "/login"
    /\ mountId < MaxMounts
    /\ user' = u
    /\ location' = "/"
    /\ Mounting
    /\ UNCHANGED <<calls, toast, sent, notPageVars>>

\* handleSearch up to its first await: the form is disabled while isLoading.
\* The search request is sent with axios.post, not with apiClient.
HandleSearch ==
    /\ mounted
    /\ ~isLoading
    /\ Len(calls) < MaxSearches
    /\ isLoading' = TRUE
    /\ products' = setProducts(products, EmptyProducts)
    /\ priceStats' = EmptyStats
    /\ aiRecommendation' = JsNull
    /\ expanded' = ResetExpanded(products, products', expanded)
    /\ sessionStorage' = Persist(sessionStorage, products', priceStats', aiRecommendation')
    /\ calls' = Append(calls, [mount |-> mountId, pc |-> "search", user |-> user])
    /\ sent' = sent \cup {Sent(axiosPost("/api/v1/search"), user)}
    /\ UNCHANGED <<mounted, mountId, toast, user, location, notPageVars>>

\* axios.post resolved with one of the given responses: the three setters,
\* then await saveSearch, which posts with apiClient
SearchResolvedWith(k, responses) ==
    /\ calls[k].pc = "search"
    /\ IF Live(calls[k])
       THEN \E response \in responses :
               /\ products' = setProducts(products, platformProducts(response))
               /\ priceStats' = response.stats
               /\ aiRecommendation' = response.ai_recommendation
               /\ expanded' = ResetExpanded(products, products', expanded)
               /\ sessionStorage' =
                      Persist(sessionStorage, products', priceStats', aiRecommendation')
       ELSE UNCHANGED <<products, priceStats, aiRecommendation, expanded, sessionStorage>>
    /\ calls' = [calls EXCEPT ![k].pc = "save"]
    /\ sent' = sent \cup {Sent(apiClientPost("/api/v1/searches", user), user)}
    /\ UNCHANGED <<mounted, mountId, isLoading, toast, user, location, notPageVars>>

SearchResolved(k) == SearchResolvedWith(k, Responses(k))

FinallySkipped(live, busy) == busy

\* finally { setIsLoading(false) }: the setter of an unmounted instance
\* changes nothing
Finally(live, busy) == IF live THEN FALSE ELSE busy

\* axios.post rejected: catch (toast 'Search Failed'), finally
SearchRejected(k) ==
    /\ calls[k].pc = "search"
    /\ toast' = "Search Failed"
    /\ isLoading' = Finally(Live(calls[k]), isLoading)
    /\ calls' = [calls EXCEPT ![k].pc = "done"]
    /\ UNCHANGED <<mounted, mountId, products, priceStats, aiRecommendation,
                   expanded, sessionStorage, user, location, sent, notPageVars>>

\* window.location.href = '/login': the document is replaced, the page's
\* instance and every handler still running in it are gone
Reloaded ==
    /\ location' = "/login"
    /\ Dropped
    /\ calls' = [i \in DOMAIN calls |-> [calls[i] EXCEPT !.pc = "done"]]

\* saveSearch settled.  A rejection passes the response interceptor, is
\* logged and re-thrown by saveSearch and logged by handleSearch's inner
\* catch; then the toast 'Search Complete!' and finally.
SaveSettled(k) ==
    /\ calls[k].pc = "save"
    /\ toast' = "Search Complete!"
    /\ \E outcome \in Outcomes :
          IF ~Fulfilled(outcome) /\ responseInterceptorRedirects(outcome)
          THEN Reloaded
          ELSE /\ isLoading' = Finally(Live(calls[k]), isLoading)
               /\ calls' = [calls EXCEPT ![k].pc = "done"]
               /\ UNCHANGED <<mounted, products, priceStats, aiRecommendation,
                              expanded, location>>
    /\ UNCHANGED <<mountId, sessionStorage, user, sent, notPageVars>>

Next ==
    \/ Unmount
    \/ Mount
    \/ HandleLogout
    \/ \E u \in Users : Login(u)
    \/ HandleSearch
    \/ \E k \in 1..Len(calls) : SearchResolved(k)
    \/ \E k \in 1..Len(calls) : SearchRejected(k)
    \/ \E k \in 1..Len(calls) : SaveSettled(k)

Spec == PageInit /\ [][Next]_vars

(***************************************************************************)
(* Vocabulary of the page claims.                                          *)
(***************************************************************************)
Sources(list) == {list[i].src : i \in 1..Len(list)}
StoredProducts == AllProductsOf(RestoredProducts(sessionStorage))
HeldProducts == AllProductsOf(products)

\* C10: the products the page holds, and the products sessionStorage would
\* restore, each come from one single search response: no two of them carry
\* different searches, and they are exactly the products of one platform
\* map a response delivered (or none).
C10_OneResultSet ==
    /\ Cardinality(Sources(StoredProducts)) <= 1
    /\ mounted =>
          /\ Cardinality(Sources(HeldProducts)) <= 1
          /\ products = EmptyProducts
                \/ \E k \in 1..Len(calls) : \E r \in Responses(k) :
                       products = platformProducts(r)

\* C10 witness: after a first search delivered products, a remount restored
\* them and a second search replaced them on other platforms.
C10_WitnessSecondSearch ==
    /\ mounted
    /\ mountId = 2
    /\ Len(calls) = 2
    /\ calls[1].pc = "done"
    /\ calls[1].mount = 1
    /\ Sources(HeldProducts) = {2}
    /\ Sources(StoredProducts) = {2}
    /\ "croma" \notin DOMAIN products

\* what a remount would restore, against what the page holds
RestoresHeldState ==
    /\ RestoredProducts(sessionStorage) = products
    /\ RestoredStats(sessionStorage) = priceStats
    /\ RestoredRecommendation(sessionStorage) = aiRecommendation

\* C11: search results persist across navigation.  When the Index page is
\* unmounted, sessionStorage restores exactly the products, the price
\* statistics and the AI recommendation the page held; nothing changes
\* sessionStorage while no instance is mounted; and the remount takes its
\* state from sessionStorage.  So the restored recommendation is the one of
\* the search the restored products came in.
C11_RestoresHeldState ==
    [][/\ Unmount => RestoresHeldState
       /\ ~mounted => sessionStorage' = sessionStorage \/ mounted'
       /\ Mount => /\ products' = RestoredProducts(sessionStorage)
                   /\ priceStats' = RestoredStats(sessionStorage)
                   /\ aiRecommendation' = RestoredRecommendation(sessionStorage)]_vars

\* C12: while nobody is signed in (after a manual logout), sessionStorage
\* holds no search results: no products, no price statistics and no AI
\* recommendation, so the next user to sign in starts with none.
C12_LogoutClearsResults ==
    user = JsNull =>
        /\ StoredProducts = <<>>
        /\ RestoredStats(sessionStorage) = EmptyStats
        /\ RestoredRecommendation(sessionStorage) = JsNull

\* C13: every request sent while a user is signed in carries that user's
\* ID token in an Authorization: Bearer header, the search request included.
C13_EveryRequestCarriesToken ==
    \A r \in sent :
        r.user # JsNull => r.request.Authorization = Bearer(getIdToken(r.user))

\* C14: a failed saveSearch (any status, or no response) leaves the user on
\* the page with the results displayed and 'Search Complete!' reported: the
\* step that settles a save request changes neither the route nor the
\* products, statistics and recommendation the page holds.
C14_SaveFailureIsSilent ==
    [][\A k \in 1..Len(calls) :
          SaveSettled(k) =>
              /\ toast' = "Search Complete!"
              /\ location' = location
              /\ UNCHANGED <<mounted, products, priceStats, aiRecommendation>>]_vars

(***************************************************************************)
(* SpecResults: the Index page with the ResultsDisplay it renders, on      *)
(* searches that return more products than the collapsed list shows.       *)
(***************************************************************************)
\* a product of a long response: the backend sends each platform's products
\* with their final_score, best first
ScoredPageProduct(k, platform, i) ==
    [src |-> k, platform |-> platform, pos |-> i, final_score |-> Rat(1, i)]

LongPlatforms == {"amazon", "flipkart"}
LongCounts == {0, 2, 3}

LongResponses(k) ==
    {[platforms |-> [pl \in LongPlatforms |->
                        [i \in 1..count[pl] |-> ScoredPageProduct(k, pl, i)]],
      stats |-> [src |-> k],
      ai_recommendation |-> [text |-> "recommendation", src |-> k]] :
        count \in [LongPlatforms -> LongCounts]}

\* what the mounted page shows in its Results section
Rendered == ResultsDisplay(AllProductsOf(products), isLoading, expanded)

\* ViewMoreButton.handleClick: trackActivity(...), then onClick, which is
\* setExpanded(!expanded).  The button exists on the results screen only.
HandleClick ==
    /\ mounted
    /\ Rendered.screen = "results"
    /\ Rendered.viewMore # Null
    /\ expanded' = ~expanded
    /\ sent' = sent \cup {Sent(apiClientPost("/api/v1/activity", user), user)}
    /\ UNCHANGED <<mounted, mountId, products, priceStats, aiRecommendation, isLoading,
                   sessionStorage, calls, toast, user, location, notPageVars>>

ResultsNext ==
    \/ Unmount
    \/ Mount
    \/ HandleLogout
    \/ \E u \in Users : Login(u)
    \/ HandleSearch
    \/ \E k \in 1..Len(calls) : SearchResolvedWith(k, LongResponses(k))
    \/ \E k \in 1..Len(calls) : SearchRejected(k)
    \/ \E k \in 1..Len(calls) : SaveSettled(k)
    \/ HandleClick

SpecResults == PageInit /\ [][ResultsNext]_vars

\* a handleSearch call of the mounted instance ends (its finally runs)
Completes(k) ==
    /\ Live(calls[k])
    /\ calls[k].pc # "done"
    /\ calls'[k].pc = "done"
    /\ mounted'

\* C21: when a search of the mounted page completes, the results list is
\* collapsed (expanded = false) and shows at most the first 4 products,
\* whatever expanded was before the search and whatever the number of
\* products of the previous search.
C21_SearchCollapsesList ==
    [][\A k \in 1..Len(calls) :
          Completes(k) =>
              LET after == ResultsDisplay(AllProductsOf(products'), isLoading', expanded')
              IN  /\ ~expanded'
                  /\ after.screen \in {"results", "noResults"}
                  /\ after.screen = "results" =>
                        /\ after.displayedTotal <= initialCount
                        /\ after.displayed \subseteq 1..initialCount]_vars

\* C21 witness: the View More button was clicked after a first search, and
\* a second search has completed with five products and shows four.
C21_WitnessSecondSearchCollapsed ==
    /\ mounted
    /\ mountId = 1
    /\ Len(calls) = 2
    /\ calls[2].pc = "done"
    /\ \E m \in sent : m.request.url = "/api/v1/activity"
    /\ Sources(HeldProducts) = {2}
    /\ Len(HeldProducts) = 5
    /\ Rendered.screen = "results"
    /\ Rendered.displayedTotal = 4
    /\ ~expanded

\* C23: on the results screen the number of displayed products is the total
\* when expanded and min(4, total) when collapsed, never more than the
\* total; the View More button is there if and only if total > 4; and while
\* collapsed the button announces total - displayed >= 1 further products.
C23_Pagination ==
    mounted /\ Rendered.screen = "results" =>
        LET total == Len(HeldProducts)
            shown == Rendered.displayedTotal
        IN  /\ shown = IF expanded THEN total
                       ELSE IF total < 4 THEN total ELSE 4
            /\ shown <= total
            /\ Rendered.totalProducts = total
            /\ Rendered.viewMore # Null <=> total > 4
            /\ (Rendered.viewMore # Null /\ ~expanded) =>
                  /\ Rendered.viewMore.more = total - shown
                  /\ Rendered.viewMore.more >= 1

\* C23 witness: a list of six products is shown expanded, with 'Show Less'.
C23_WitnessExpanded ==
    /\ mounted
    /\ expanded
    /\ Rendered.screen = "results"
    /\ Rendered.displayedTotal = 6
    /\ Rendered.viewMore = ViewMoreButton(TRUE, 6, 6)

\* the search request or the save-search request of some call settles
Settles ==
    \E k \in 1..Len(calls) :
        \/ SearchResolvedWith(k, LongResponses(k))
        \/ SearchRejected(k)
        \/ SaveSettled(k)

\* every request in flight eventually resolves or rejects
SpecResultsFair == SpecResults /\ WF_vars(Settles)

\* the response of call k has arrived at the mounted page
ResponseArrived(k) == k <= Len(calls) /\ Live(calls[k]) /\ calls[k].pc = "save"

\* the page shows the products of call k
Visible(k) ==
    /\ k <= Len(calls)
    /\ Live(calls[k])
    /\ Rendered.screen # "skeleton"
    /\ Sources(HeldProducts) \subseteq {k}
    /\ priceStats = [src |-> k]

\* the page instance that started call k is no longer there
Gone(k) == k <= Len(calls) /\ ~Live(calls[k])

C22_OneBestDealBadge ==
    (Shown /\ view.displayed = Indices(allProducts))
        => Cardinality(view.highlighted) = 1

\* C24: for every non-empty list, with or without products that lack a
\* final_score, the product the AIRecommendation panel shows has the
\* final_score ResultsDisplay uses as maxScore: it is one of the products
\* ResultsDisplay highlights.
C24_PanelAgreesWithHighlight ==
    Shown =>
        /\ view.ai # Null
        /\ Highlighted(allProducts[view.ai.bestDeal], view.maxScore)

(***************************************************************************)
(* SpecAuth: one Google user, the Login, SignUp, Index, Analytics and      *)
(* Account pages, the requests they send and the backend handlers that     *)
(* serve them on the users, searches and activity collections.  A request  *)
(* in flight is served in the steps of its handler, one database call each,*)
(* and the requests in flight are served in any order.                     *)
(***************************************************************************)
MaxRequests == 3

MaxDocs == 2

MaxClicks == 2

TheUser == [uid |-> "u1"]

NoAccountFound == "No account found. Please sign up first."
AccountExists == "Account already exists. Please use the Login page instead."
AccountDeletedByCheck ==
    "Account Deleted: Your account has been deleted. Please sign up again."
AccountDeletedByUser ==
    "Account Deleted: Your account and all associated data have been permanently deleted."

\* the pages whose load ensures the profile without waiting for a check
EnsuringPages == {"Index", "Analytics"}

Request(kind, origin) == [kind |-> kind, origin |-> origin, pc |-> "sent"]

InFlight(kind, origin) == \E r \in reqs : r.kind = kind /\ r.origin = origin

\* the model holds one request of a kind per sender, MaxRequests in all
CanSend(kind, origin) == ~InFlight(kind, origin) /\ Cardinality(reqs) < MaxRequests

Answered(r, pc) == reqs' = (reqs \ {r}) \cup {[r EXCEPT !.pc = pc]}

sessionVars == <<user, location, toast>>

frontVars == <<sessionVars, handler, error, clicks>>

authRest == <<indexVars, dealVars, formVars>>

AuthInit ==
    /\ PageIdle
    /\ DealIdle
    /\ FormIdle
    /\ db \in {EmptyDb, [EmptyDb EXCEPT !.users = 1]}
    /\ reqs = {}
    /\ handler = Idle
    /\ error = ""
    /\ clicks = 0

(* ---- backend: activity.py ---- *)

\* GET /users/check-exists
check_user_exists(r) ==
    /\ r.kind = "check-exists"
    /\ r.pc = "sent"
    /\ Answered(r, IF db.users > 0 THEN "exists" ELSE "absent")
    /\ UNCHANGED <<db, frontVars, authRest>>

\* The check gets no answer, or an error status other than 401
check_fails(r) ==
    /\ r.kind = "check-exists"
    /\ r.pc = "sent"
    /\ Answered(r, "failed")
    /\ UNCHANGED <<db, frontVars, authRest>>

\* POST /users/create-or-update: existing_user = await db.users.find_one(...)
create_or_update_user_find(r) ==
    /\ r.kind = "create-or-update"
    /\ r.pc = "sent"
    /\ Answered(r, IF db.users > 0 THEN "found" ELSE "missing")
    /\ UNCHANGED <<db, frontVars, authRest>>

\* insert_one adds a document
insert_one(n) == n + 1

\* ... then update_one (which changes no count) or insert_one
create_or_update_user_write(r) ==
    /\ r.kind = "create-or-update"
    /\ \/ /\ r.pc = "found"
          /\ Answered(r, "updated")
          /\ UNCHANGED db
       \/ /\ r.pc = "missing"
          /\ db.users < MaxDocs
          /\ db' = [db EXCEPT !.users = insert_one(db.users)]
          /\ Answered(r, "created")
    /\ UNCHANGED <<frontVars, authRest>>

Collection(kind) == IF kind = "save-search" THEN "searches" ELSE "activity"

\* POST /searches and POST /activity: a document with the uid of the token
\* is inserted; the frontend only logs the answer
insert_document(r) ==
    /\ r.kind \in {"save-search", "log-activity"}
    /\ db[Collection(r.kind)] < MaxDocs
    /\ db' = [db EXCEPT ![Collection(r.kind)] = insert_one(@)]
    /\ reqs' = reqs \ {r}
    /\ UNCHANGED <<frontVars, authRest>>

\* delete_one removes one matching document, delete_many all of them
delete_one(n) == IF n > 0 THEN n - 1 ELSE 0

\* DELETE /users/me: delete_many on searches, delete_many on activity,
\* delete_one on users, one await each
delete_user_account(r) ==
    /\ r.kind = "delete"
    /\ \/ /\ r.pc = "sent"
          /\ db' = [db EXCEPT !.searches = 0]
          /\ Answered(r, "searches-deleted")
       \/ /\ r.pc = "searches-deleted"
          /\ db' = [db EXCEPT !.activity = 0]
          /\ Answered(r, "activity-deleted")
       \/ /\ r.pc = "activity-deleted"
          /\ db' = [db EXCEPT !.users = delete_one(@)]
          /\ Answered(r, "deleted")
    /\ UNCHANGED <<frontVars, authRest>>

\* The user document is removed by hand (MongoDB Compass, Atlas, shell):
\* no cascade runs.
ManualDelete ==
    /\ db.users > 0
    /\ db' = [db EXCEPT !.users = 0]
    /\ UNCHANGED <<reqs, frontVars, authRest>>

(* ---- frontend ---- *)

\* lib/api.ts checkUserExists, on a request that was answered:
\* response.data.exists, and false from the catch
checkUserExists(r) == r.pc = "exists"

\* has the check-exists request r of a page been answered
Checked(r, origin) ==
    /\ r.kind = "check-exists"
    /\ r.origin = origin
    /\ r.pc \in {"exists", "absent", "failed"}

\* setError of the Login or SignUp page; the setter of a page that was left
\* changes nothing
setError(page, message) == IF location = page THEN message ELSE error

\* Index mounts: the ensureUserProfile effect, if (user)
IndexLoads(others) ==
    /\ location' = "/"
    /\ IF user # JsNull /\ location # "/"
       THEN /\ ~InFlight("create-or-update", "Index")
            /\ Cardinality(others) < MaxRequests
            /\ reqs' = others \cup {Request("create-or-update", "Index")}
       ELSE reqs' = others

\* Login.handleGoogleLogin up to the answer of checkUserExists
HandleGoogleLogin ==
    /\ location = "/login"
    /\ handler = Idle
    /\ clicks < MaxClicks
    /\ CanSend("check-exists", "Login")
    /\ error' = ""
    /\ clicks' = clicks + 1
    /\ user' = TheUser
    /\ handler' = [name |-> "handleGoogleLogin", pc |-> "checkUserExists"]
    /\ reqs' = reqs \cup {Request("check-exists", "Login")}
    /\ UNCHANGED <<db, location, toast, authRest>>

\* ... if (!userExists): the error, signOut, return; else createOrUpdateUserProfile
GoogleLoginChecked(r) ==
    /\ Checked(r, "Login")
    /\ \/ /\ ~checkUserExists(r)
          /\ error' = setError("/login", NoAccountFound)
          /\ user' = JsNull
          /\ handler' = Idle
          /\ reqs' = reqs \ {r}
       \/ /\ checkUserExists(r)
          /\ handler' = [handler EXCEPT !.pc = "createOrUpdateUserProfile"]
          /\ reqs' = (reqs \ {r}) \cup {Request("create-or-update", "Login")}
          /\ UNCHANGED <<error, user>>
    /\ UNCHANGED <<db, location, toast, clicks, authRest>>

\* ... navigate('/')
GoogleLoginProfiled(r) ==
    /\ r.kind = "create-or-update"
    /\ r.origin = "Login"
    /\ r.pc \in {"updated", "created"}
    /\ handler' = Idle
    /\ error' = ""
    /\ IndexLoads(reqs \ {r})
    /\ UNCHANGED <<db, user, toast, clicks, authRest>>

\* the link between the Login and the SignUp page
GoToSignUp ==
    /\ location = "/login"
    /\ handler = Idle
    /\ location' = "/signup"
    /\ error' = ""
    /\ clicks' = 0
    /\ UNCHANGED <<db, reqs, user, toast, handler, authRest>>

GoToLogin ==
    /\ location = "/signup"
    /\ handler = Idle
    /\ location' = "/login"
    /\ error' = ""
    /\ clicks' = 0
    /\ UNCHANGED <<db, reqs, user, toast, handler, authRest>>

\* SignUp.handleGoogleSignUp up to the answer of checkUserExists.  The
\* handler's record notes whether a profile existed when the sign-up began,
\* which the program does not store.
HandleGoogleSignUp ==
    /\ location = "/signup"
    /\ handler = Idle
    /\ CanSend("check-exists", "SignUp")
    /\ error' = ""
    /\ user' = TheUser
    /\ handler' = [name |-> "handleGoogleSignUp", pc |-> "checkUserExists",
                    hadProfile |-> db.users > 0]
    /\ reqs' = reqs \cup {Request("check-exists", "SignUp")}
    /\ UNCHANGED <<db, location, toast, clicks, authRest>>

\* ... if (userExists): the error, signOut, return; else createOrUpdateUserProfile
GoogleSignUpChecked(r) ==
    /\ Checked(r, "SignUp")
    /\ \/ /\ checkUserExists(r)
          /\ error' = setError("/signup", AccountExists)
          /\ user' = JsNull
          /\ handler' = Idle
          /\ reqs' = reqs \ {r}
       \/ /\ ~checkUserExists(r)
          /\ handler' = [handler EXCEPT !.pc = "createOrUpdateUserProfile"]
          /\ reqs' = (reqs \ {r}) \cup {Request("create-or-update", "SignUp")}
          /\ UNCHANGED <<error, user>>
    /\ UNCHANGED <<db, location, toast, clicks, authRest>>

\* ... navigate('/')
GoogleSignUpProfiled(r) ==
    /\ r.kind = "create-or-update"
    /\ r.origin = "SignUp"
    /\ r.pc \in {"updated", "created"}
    /\ handler' = Idle
    /\ error' = ""
    /\ IndexLoads(reqs \ {r})
    /\ UNCHANGED <<db, user, toast, clicks, authRest>>

\* PublicRoute (App.tsx): a signed-in user on /login or /signup is
\* redirected to the home page, where Index mounts.  A handler of the page
\* that was left runs on.
PublicRoute ==
    /\ user # JsNull
    /\ location \in {"/login", "/signup"}
    /\ IndexLoads(reqs)
    /\ error' = ""
    /\ clicks' = 0
    /\ UNCHANGED <<db, user, toast, handler, authRest>>

\* ProtectedRoute (App.tsx): without a signed-in user the home, Analytics
\* and Account pages redirect to /login
ProtectedRoute ==
    /\ user = JsNull
    /\ location \in {"/", "/analytics", "/account"}
    /\ location' = "/login"
    /\ error' = ""
    /\ clicks' = 0
    /\ UNCHANGED <<db, reqs, user, toast, handler, authRest>>

\* navigate('/') from the Analytics or the Account page
OpenHome ==
    /\ location \in {"/analytics", "/account"}
    /\ handler = Idle
    /\ user # JsNull
    /\ IndexLoads(reqs)
    /\ UNCHANGED <<db, user, toast, handler, error, clicks, authRest>>

\* navigate('/analytics'): the fetchData effect of Analytics begins with
\* createOrUpdateUserProfile
OpenAnalytics ==
    /\ location \in {"/", "/account"}
    /\ handler = Idle
    /\ user # JsNull
    /\ CanSend("create-or-update", "Analytics")
    /\ location' = "/analytics"
    /\ reqs' = reqs \cup {Request("create-or-update", "Analytics")}
    /\ UNCHANGED <<db, user, toast, handler, error, clicks, authRest>>

\* navigate('/account'): the fetchData effect of Account begins with
\* checkUserExists
OpenAccount ==
    /\ location \in {"/", "/analytics"}
    /\ handler = Idle
    /\ user # JsNull
    /\ CanSend("check-exists", "Account")
    /\ location' = "/account"
    /\ reqs' = reqs \cup {Request("check-exists", "Account")}
    /\ UNCHANGED <<db, user, toast, handler, error, clicks, authRest>>

\* ... if (!exists): toast 'Account Deleted', logout, navigate('/login');
\* else createOrUpdateUserProfile, which without a signed-in user is sent
\* with no token, answered 401 and redirected to /login by the interceptor
AccountChecked(r) ==
    /\ Checked(r, "Account")
    /\ \/ /\ ~checkUserExists(r)
          /\ toast' = AccountDeletedByCheck
          /\ user' = JsNull
          /\ location' = "/login"
          /\ error' = ""
          /\ clicks' = 0
          /\ reqs' = reqs \ {r}
       \/ /\ checkUserExists(r)
          /\ user # JsNull
          /\ ~InFlight("create-or-update", "Account")
          /\ reqs' = (reqs \ {r}) \cup {Request("create-or-update", "Account")}
          /\ UNCHANGED <<user, location, toast, error, clicks>>
       \/ /\ checkUserExists(r)
          /\ user = JsNull
          /\ location' = "/login"
          /\ reqs' = reqs \ {r}
          /\ UNCHANGED <<user, toast, error, clicks>>
    /\ UNCHANGED <<db, handler, authRest>>

\* The answer to a createOrUpdateUserProfile nobody acts on: the Index,
\* Analytics and Account effects log it.
ProfileEnsured(r) ==
    /\ r.kind = "create-or-update"
    /\ r.origin \in EnsuringPages \cup {"Account"}
    /\ r.pc \in {"updated", "created"}
    /\ reqs' = reqs \ {r}
    /\ UNCHANGED <<db, frontVars, authRest>>

\* Index.handleSearch: saveSearch
SaveSearch ==
    /\ location = "/"
    /\ user # JsNull
    /\ CanSend("save-search", "Index")
    /\ reqs' = reqs \cup {Request("save-search", "Index")}
    /\ UNCHANGED <<db, frontVars, authRest>>

\* ViewMoreButton.handleClick: trackActivity
TrackActivity ==
    /\ location = "/"
    /\ user # JsNull
    /\ CanSend("log-activity", "Index")
    /\ reqs' = reqs \cup {Request("log-activity", "Index")}
    /\ UNCHANGED <<db, frontVars, authRest>>

\* Account.handleDeleteAccount up to the answer of deleteUserAccount
HandleDeleteAccount ==
    /\ location = "/account"
    /\ handler = Idle
    /\ user # JsNull
    /\ CanSend("delete", "Account")
    /\ handler' = [name |-> "handleDeleteAccount", pc |-> "deleteUserAccount"]
    /\ reqs' = reqs \cup {Request("delete", "Account")}
    /\ UNCHANGED <<db, sessionVars, error, clicks, authRest>>

\* ... toast 'Account Deleted', logout, navigate('/login')
DeleteAccountSettled(r) ==
    /\ r.kind = "delete"
    /\ r.pc = "deleted"
    /\ toast' = AccountDeletedByUser
    /\ user' = JsNull
    /\ location' = "/login"
    /\ handler' = Idle
    /\ error' = ""
    /\ clicks' = 0
    /\ reqs' = reqs \ {r}
    /\ UNCHANGED <<db, authRest>>

AuthNext ==
    \/ \E r \in reqs : check_user_exists(r)
    \/ \E r \in reqs : check_fails(r)
    \/ \E r \in reqs : create_or_update_user_find(r)
    \/ \E r \in reqs : create_or_update_user_write(r)
    \/ \E r \in reqs : insert_document(r)
    \/ \E r \in reqs : delete_user_account(r)
    \/ ManualDelete
    \/ HandleGoogleLogin
    \/ \E r \in reqs : GoogleLoginChecked(r)
    \/ \E r \in reqs : GoogleLoginProfiled(r)
    \/ GoToSignUp
    \/ GoToLogin
    \/ HandleGoogleSignUp
    \/ \E r \in reqs : GoogleSignUpChecked(r)
    \/ \E r \in reqs : GoogleSignUpProfiled(r)
    \/ PublicRoute
    \/ ProtectedRoute
    \/ OpenHome
    \/ OpenAnalytics
    \/ OpenAccount
    \/ \E r \in reqs : AccountChecked(r)
    \/ \E r \in reqs : ProfileEnsured(r)
    \/ SaveSearch
    \/ TrackActivity
    \/ HandleDeleteAccount
    \/ \E r \in reqs : DeleteAccountSettled(r)

SpecAuth == AuthInit /\ [][AuthNext]_vars

\* C15: the users collection never holds more than one document of the uid,
\* however many create-or-update requests were served and in whatever order.
C15_OneUserDocument == db.users <= 1

\* C16: after the in-app deletion was reported and the client logged out,
\* and until somebody signs in again, no document of the uid exists in the
\* users, searches or activity collection, whatever requests of the user
\* were still in flight.
C16_DeleteCascades ==
    toast = AccountDeletedByUser /\ user = JsNull => db = EmptyDb

\* C17: on the Login page, when the check finds no profile for the Google
\* user, the first click ends with an error message and the user signed
\* out, and the second click goes on to create the profile (and from there
\* to the home page).
C17_TwoStepResignup ==
    [][\A r \in reqs :
          GoogleLoginChecked(r) /\ r.pc = "absent" =>
              IF clicks = 1
              THEN error' # "" /\ user' = JsNull /\ handler' = Idle
              ELSE /\ user' # JsNull
                   /\ handler' # Idle
                   /\ \E q \in reqs' : q.kind = "create-or-update" /\ q.origin = "Login"]_vars

\* C18: the load of the Index or Analytics page never re-creates a users
\* document that no longer exists, and when the page learns that the
\* document was missing the app shows 'Account Deleted', logs the user out
\* and redirects to /login.
C18_DeletedAccountIsLoggedOut ==
    [][\A r \in reqs :
          /\ create_or_update_user_write(r) /\ r.origin \in EnsuringPages
                => db'.users = db.users
          /\ ProfileEnsured(r) /\ r.origin \in EnsuringPages /\ r.pc = "created"
                => /\ toast' = AccountDeletedByCheck
                   /\ user' = JsNull
                   /\ location' = "/login"]_vars

\* C26: a Google user who had no profile when the sign-up on the SignUp
\* page began, and whose backend calls succeed, is never rejected with
\* 'Account already exists' and signed out, however the requests of
\* handleGoogleSignUp interleave with the ensure-profile request of the
\* Index page that the same sign-in mounts.
C26_NewGoogleUserIsAccepted ==
    [][\A r \in reqs :
          (GoogleSignUpChecked(r) /\ ~handler.hadProfile /\ r.pc # "failed")
              => /\ user' = TheUser
                 /\ error' # AccountExists
                 /\ handler'.pc = "createOrUpdateUserProfile"]_vars

\* C27: the Account page shows 'Account Deleted' and logs the user out only
\* on an answer of the backend that says the profile does not exist; a
\* check that failed logs nobody out.
C27_LogoutOnlyWhenReportedAbsent ==
    [][\A r \in reqs :
          (AccountChecked(r) /\ user # JsNull /\ user' = JsNull)
              => r.pc = "absent"]_vars

(***************************************************************************)
(* lib/api.ts: the password generator, strength meter and validator.       *)
(* A password is a sequence of characters, each a one-character string.    *)
(***************************************************************************)
uppercase ==
    <<"A", "B", "C", "D", "E", "F", "G", "H", "J", "K", "L", "M",
      "N", "P", "Q", "R", "S", "T", "U", "V", "W", "X", "Y", "Z">>
lowercase ==
    <<"a", "b", "c", "d", "e", "f", "g", "h", "i", "j", "k", "m",
      "n", "p", "q", "r", "s", "t", "u", "v", "w", "x", "y", "z">>
numbers == <<"2", "3", "4", "5", "6", "7", "8", "9">>
symbols == <<"!", "@", "#", "$", "%", "^", "&", "*", "(", ")", "-", "_", "=", "+">>

allChars == uppercase \o lowercase \o numbers \o symbols

\* the character classes of the regular expressions [a-z], [A-Z], [0-9]
LowerClass ==
    {"a", "b", "c", "d", "e", "f", "g", "h", "i", "j", "k", "l", "m",
     "n", "o", "p", "q", "r", "s", "t", "u", "v", "w", "x", "y", "z"}
UpperClass ==
    {"A", "B", "C", "D", "E", "F", "G", "H", "I", "J", "K", "L", "M",
     "N", "O", "P", "Q", "R", "S", "T", "U", "V", "W", "X", "Y", "Z"}
DigitClass == {"0", "1", "2", "3", "4", "5", "6", "7", "8", "9"}

\* /[...]/.test(pw), and /[^A-Za-z0-9]/.test(pw)
Test(class, pw) == \E i \in 1..Len(pw) : pw[i] \in class
TestSpecial(pw) ==
    \E i \in 1..Len(pw) : pw[i] \notin UpperClass \cup LowerClass \cup DigitClass

\* Math.random() is a pseudo-random stream.  Of the values a draw can take
\* the model keeps the least and the greatest (FALSE, TRUE), and of the
\* streams those that repeat after Period draws.
Period == 7
RandomStreams == [1..Period -> BOOLEAN]

\* the n-th draw (from 0) of a stream
Draw(stream, n) == stream[(n % Period) + 1]

\* Math.floor(Math.random() * chars.length), as an index from 1
RandomIndex(chars, random) == IF random THEN Len(chars) ELSE 1

PasswordLength == 14

CharsetAtWithoutSymbols(i) ==
    IF i = 0 THEN uppercase
    ELSE IF i = 1 THEN lowercase
    ELSE IF i = 2 THEN numbers
    ELSE allChars

\* the string the character at index i (from 0) is drawn from: one of each
\* type, then for (let i = 4; i < 14; i++) allChars
CharsetAt(i) ==
    IF i = 0 THEN uppercase
    ELSE IF i = 1 THEN lowercase
    ELSE IF i = 2 THEN numbers
    ELSE IF i = 3 THEN symbols
    ELSE allChars

Reverse(pw) == [i \in 1..Len(pw) |-> pw[Len(pw) + 1 - i]]
Rotate(pw) == [i \in 1..Len(pw) |-> pw[(i % Len(pw)) + 1]]

\* password.split('').sort(() => Math.random() - 0.5).join(''): the order
\* a sort returns under an inconsistent comparator is up to the engine; it
\* is a permutation of the characters, of which the model draws three.
Shuffles(pw) == {pw, Reverse(pw), Rotate(pw)}

Min(a, b) == IF a < b THEN a ELSE b

Count(b) == IF b THEN 1 ELSE 0

StrengthLabels == <<"Very Weak", "Weak", "Fair", "Good", "Strong">>

\* checkPasswordStrength: Math.min(Math.floor(score / 1.5), 4)
checkPasswordStrength(pw) ==
    IF Len(pw) = 0 THEN [score |-> 0, label |-> "None"]
    ELSE LET score == Count(Len(pw) >= 8) + Count(Len(pw) >= 12)
                        + Count(Test(LowerClass, pw)) + Count(Test(UpperClass, pw))
                        + Count(Test(DigitClass, pw)) + Count(TestSpecial(pw))
             normalizedScore == Min((2 * score) \div 3, 4)
         IN  [score |-> normalizedScore, label |-> StrengthLabels[normalizedScore + 1]]

\* errors.push(...) if the condition holds
Push(cond, message) == IF cond THEN <<message>> ELSE <<>>

validatePasswordWithoutSpecial(pw) ==
    LET errors ==
            Push(Len(pw) < 8, "Password must be at least 8 characters")
            \o Push(~Test(LowerClass, pw), "Password must contain a lowercase letter")
            \o Push(~Test(UpperClass, pw), "Password must contain an uppercase letter")
            \o Push(~Test(DigitClass, pw), "Password must contain a number")
    IN  [isValid |-> Len(errors) = 0, errors |-> errors]

validatePassword(pw) ==
    LET errors ==
            Push(Len(pw) < 8, "Password must be at least 8 characters")
            \o Push(~Test(LowerClass, pw), "Password must contain a lowercase letter")
            \o Push(~Test(UpperClass, pw), "Password must contain an uppercase letter")
            \o Push(~Test(DigitClass, pw), "Password must contain a number")
            \o Push(~TestSpecial(pw), "Password must contain a special character")
    IN  [isValid |-> Len(errors) = 0, errors |-> errors]

(***************************************************************************)
(* SpecSignUp: the SignUp page: the form, 'Generate Secure' and            *)
(* handleSignUp.  The generator runs one random draw per step, started     *)
(* from the untouched form.                                                *)
(***************************************************************************)
\* what a user types into the password fields
TypedPasswords ==
    {<<"A", "a", "1", "!", "a", "a", "a", "a">>,
     <<"B", "b", "2", "@", "b", "b", "b", "b">>,
     <<"A", "a", "1", "!", "a", "a", "a">>,
     <<"a", "a", "1", "!", "a", "a", "a", "a">>,
     <<"A", "A", "1", "!", "A", "A", "A", "A">>,
     <<"A", "a", "!", "!", "a", "a", "a", "a">>,
     <<"A", "a", "1", "1", "a", "a", "a", "a">>}

SignUpInit ==
    /\ IndexIdle
    /\ DealIdle
    /\ AuthIdle
    /\ FormIdle
    /\ toast = NoToast
    /\ user = JsNull
    /\ location = "/signup"

signUpRest == <<indexVars, dealVars, db, clicks, toast>>

Editable == location = "/signup" /\ handler = Idle /\ ~loading

\* onChange of the two password inputs (disabled while loading)
SetPassword(pw) ==
    /\ Editable
    /\ password' = pw
    /\ UNCHANGED <<confirmPassword, loading, error, handler, user, location, reqs, signUpRest>>

SetConfirmPassword(pw) ==
    /\ Editable
    /\ confirmPassword' = pw
    /\ UNCHANGED <<password, loading, error, handler, user, location, reqs, signUpRest>>

\* handleGeneratePassword: generateSecurePassword begins, let password = ""
HandleGeneratePassword ==
    /\ Editable
    /\ password = <<>>
    /\ confirmPassword = <<>>
    /\ error = ""
    /\ \E stream \in RandomStreams :
          handler' = [name |-> "generateSecurePassword", password |-> <<>>,
                      random |-> stream]
    /\ UNCHANGED <<password, confirmPassword, loading, error, user, location, reqs, signUpRest>>

Generating == handler # Idle /\ handler.name = "generateSecurePassword"

\* password += chars[Math.floor(Math.random() * chars.length)]
GenerateChar ==
    /\ Generating
    /\ Len(handler.password) < PasswordLength
    /\ LET i == Len(handler.password)
           chars == CharsetAt(i)
           r == RandomIndex(chars, Draw(handler.random, i))
       IN  handler' = [handler EXCEPT !.password = Append(@, chars[r])]
    /\ UNCHANGED <<password, confirmPassword, loading, error, user, location, reqs, signUpRest>>

\* the shuffle and the return; setPassword(generated); setConfirmPassword(generated)
GenerateReturn ==
    /\ Generating
    /\ Len(handler.password) = PasswordLength
    /\ \E generated \in Shuffles(handler.password) :
          /\ password' = generated
          /\ confirmPassword' = generated
    /\ handler' = Idle
    /\ UNCHANGED <<loading, error, user, location, reqs, signUpRest>>

\* handleSignUp up to its first await
HandleSignUp ==
    /\ Editable
    /\ LET passwordValidation == validatePassword(password)
       IN  IF ~passwordValidation.isValid
           THEN /\ error' = passwordValidation.errors[1]
                /\ UNCHANGED <<loading, handler>>
           ELSE IF password # confirmPassword
           THEN /\ error' = "Passwords do not match"
                /\ UNCHANGED <<loading, handler>>
           ELSE /\ error' = ""
                /\ loading' = TRUE
                /\ handler' = [name |-> "handleSignUp", pc |-> "signUp"]
    /\ UNCHANGED <<password, confirmPassword, user, location, reqs, signUpRest>>

SigningUp(pc) == handler # Idle /\ handler.name = "handleSignUp" /\ handler.pc = pc

\* signUp resolved: the account exists and is signed in; the profile is posted
SignUpResolved ==
    /\ SigningUp("signUp")
    /\ user' = TheUser
    /\ reqs' = reqs \cup {Request("create-or-update", "SignUp")}
    /\ handler' = [handler EXCEPT !.pc = "createOrUpdateUserProfile"]
    /\ UNCHANGED <<password, confirmPassword, loading, error, location, signUpRest>>

\* signUp rejected: catch, finally
SignUpRejected ==
    /\ SigningUp("signUp")
    /\ error' = "Failed to create account."
    /\ loading' = FALSE
    /\ handler' = Idle
    /\ UNCHANGED <<password, confirmPassword, user, location, reqs, signUpRest>>

\* createOrUpdateUserProfile settled either way: navigate('/'), finally
SignUpProfiled ==
    /\ SigningUp("createOrUpdateUserProfile")
    /\ reqs' = {}
    /\ location' = "/"
    /\ loading' = FALSE
    /\ handler' = Idle
    /\ UNCHANGED <<password, confirmPassword, error, user, signUpRest>>

SignUpNext ==
    \/ \E pw \in TypedPasswords : SetPassword(pw)
    \/ \E pw \in TypedPasswords : SetConfirmPassword(pw)
    \/ HandleGeneratePassword
    \/ GenerateChar
    \/ GenerateReturn
    \/ HandleSignUp
    \/ SignUpResolved
    \/ SignUpRejected
    \/ SignUpProfiled

SpecSignUp == SignUpInit /\ [][SignUpNext]_vars

\* what the password rules ask of a password
MeetsRequirements(pw) ==
    /\ Len(pw) >= 8
    /\ \E i \in 1..Len(pw) : pw[i] \in LowerClass
    /\ \E i \in 1..Len(pw) : pw[i] \in UpperClass
    /\ \E i \in 1..Len(pw) : pw[i] \in DigitClass
    /\ \E i \in 1..Len(pw) : pw[i] \notin LowerClass \cup UpperClass \cup DigitClass

\* C19: every password the generator returns has exactly 14 characters,
\* holds an uppercase letter, a lowercase letter, a digit and a symbol, is
\* accepted by validatePassword with no errors and is rated 'Strong'
\* (score 4) by checkPasswordStrength.
C19_GeneratedPasswordIsStrong ==
    [][GenerateReturn =>
          /\ Len(password') = 14
          /\ MeetsRequirements(password')
          /\ validatePassword(password') = [isValid |-> TRUE, errors |-> <<>>]
          /\ checkPasswordStrength(password') = [score |-> 4, label |-> "Strong"]]_vars

\* C19 witness: a generated password is in the form, shuffled so that the
\* uppercase letter drawn first stands last.
C19_WitnessShuffled ==
    /\ handler = Idle
    /\ Len(password) = 14
    /\ password = confirmPassword
    /\ password[14] = "Z"
    /\ password[11] = "!"

\* C20: handleSignUp goes on to signUp only with a password that meets the
\* rules and equals the confirmation; otherwise it sets an error, leaves
\* loading false and calls nothing.  So no account is created and no
\* profile request is made for a weak or mismatched password.
C20_WeakPasswordNeverSignsUp ==
    /\ [][HandleSignUp =>
             IF MeetsRequirements(password) /\ password = confirmPassword
             THEN loading' /\ SigningUp("signUp")'
             ELSE /\ error' # ""
                  /\ ~loading'
                  /\ handler' = Idle
                  /\ user' = JsNull
                  /\ reqs' = {}]_vars
    /\ [](handler # Idle \/ user # JsNull \/ reqs # {} =>
             \/ Generating
             \/ MeetsRequirements(password) /\ password = confirmPassword)

\* C20 witness: a sign-up with a good password and a different confirmation
\* was refused.
C20_WitnessMismatch ==
    /\ error = "Passwords do not match"
    /\ MeetsRequirements(password)
    /\ MeetsRequirements(confirmPassword)
    /\ password # confirmPassword
    /\ ~loading
    /\ handler = Idle
    /\ user = JsNull

====
